---- MODULE Spec2Model ----
(***************************************************************************)
(* Model of the planning logic of whaleen/video-tiling:                    *)
(*   src/tile_videos.py   - distribute_videos, create_tile_video,          *)
(*                          build_tile_with_transitions (tiling workflow), *)
(*                          get_scale_filter, the layout builders and the  *)
(*                          synchronizing loop of main()                   *)
(*   src/concat_videos.py - concat_with_transitions, build_xfade_filter,   *)
(*                          build_fadeblack_filter (concatenation)         *)
(*                                                                         *)
(* Conventions.                                                            *)
(*  - A clip (a Path of the sorted folder listing) is a positive integer.  *)
(*  - Python lists are sequences; Python index i is TLA+ index i + 1.      *)
(*  - An optional value (a dict or None, a float or None) is a sequence of *)
(*    length 0 (None) or 1 (the value).                                    *)
(*  - Times are integers in one common unit; transition durations are      *)
(*    even, so that duration / 2 is exact, as it is in binary floating     *)
(*    point.                                                               *)
(*  - A text (an f-string the code builds: a stream label, a pad           *)
(*    reference) is the sequence of its characters, so that two texts are  *)
(*    equal exactly when the strings the code builds are equal.            *)
(*  - The durations of built tiles, which the synchronizing loop of main() *)
(*    compares, are in tenths of a second, so that its tolerance of 0.1 s  *)
(*    is one unit.                                                         *)
(*  - Every call of get_video_info is logged in probed, with the file it  *)
(*    was called on: a clip, a tile written, the output of the workflow.   *)
(***************************************************************************)
EXTENDS Integers, Sequences, FiniteSets, TLC

\* ------------------------------------------------------------------ bounds
MaxClips == 4
MaxTiles == 3
MaxSynthClips == 3
MaxDur == 3
MaxTd == 1
MaxManyClips == 12
MaxTileDur == 4
MaxSyncTiles == 3
MaxPaths == 9
MaxExcess == 3

VARIABLES
    video_files,      \* the clip list handed to the workflow (sorted listing)
    num_tiles,        \* layout_info['count']
    mode,             \* distribution_mode ("none": one folder per tile)
    pc,               \* position of the workflow
    tiles,            \* per-tile clip lists (distributed_videos / tile_settings)
    again,            \* result of distributing a second time, same inputs
    info,             \* what get_video_info returns for each clip
    transition_type,  \* 'cut' | 'fade' | 'fadeblack'
    duration,         \* transition duration
    tile_idx,         \* number of tiles main() has built so far
    tile,             \* outcome of the last create_tile_video call
    concat,           \* outcome of the last concat_with_transitions call
    layout_code,      \* '2x1', ..., 'pip', '1+2', '2+1', '1+3'
    tile_durations,   \* duration of each tile built (one per tile_paths entry)
    audio_tile,       \* index of the tile whose audio is kept
    width,            \* args.width; the width handed to the normalizer
    height,           \* args.height; the height handed to the normalizer
    sync_idx,         \* number of tiles the synchronizing loop has passed
    synced,           \* per tile: looped or not, repetitions, length of its file
    final,            \* outcome of the final composition
    crop_mode,        \* 'crop' | 'pad' | 'stretch'
    crop_position,    \* 'center', 'top', ..., 'bottom-right'
    scale_filter,     \* what get_scale_filter returned
    scale_base,       \* what build_tile_with_transitions built inline
    probed            \* the files get_video_info was called on, in call order

\* the state of building the tiles, of synchronizing and composing them,
\* and of the normalizer
tileVars == <<video_files, num_tiles, mode, tiles, again, info,
              transition_type, duration, tile_idx, tile, concat>>

composeVars == <<layout_code, tile_durations, audio_tile, sync_idx, synced,
                 final>>

fitVars == <<width, height, crop_mode, crop_position, scale_filter, scale_base>>

vars == <<pc, tileVars, composeVars, fitVars, probed>>

\* ------------------------------------------------------- optional values
None == <<>>

Some(x) == <<x>>

\* ------------------------------------------------------------ Python lists
\* s[a:b] for 0 <= a <= b
Slice(s, a, b) == SubSeq(s, a + 1, IF b < Len(s) THEN b ELSE Len(s))

Range(s) == {s[k] : k \in 1..Len(s)}

RECURSIVE Flatten(_)
Flatten(ss) == IF ss = <<>> THEN <<>> ELSE Head(ss) \o Flatten(Tail(ss))

RECURSIVE SumLen(_)
SumLen(ss) == IF ss = <<>> THEN 0 ELSE Len(Head(ss)) + SumLen(Tail(ss))

\* every reordering of s: the outcomes random.shuffle can leave in a copy
Shuffles(s) ==
    {[k \in 1..Len(s) |-> s[p[k]]] :
        p \in {q \in [1..Len(s) -> 1..Len(s)] :
                  \A a, b \in 1..Len(s) : q[a] = q[b] => a = b}}

\* ================================================================
\* distribute_videos                       src/tile_videos.py:301-353
\* ================================================================

\* for i, video in enumerate(video_files): distributed[i % num_tiles].append
RECURSIVE RoundRobinFrom(_, _, _, _)
RoundRobinFrom(files, T, i, distributed) ==
    IF i >= Len(files) THEN distributed
    ELSE LET tile_idx_ == i % T
         IN  RoundRobinFrom(files, T, i + 1,
                 [distributed EXCEPT ![tile_idx_ + 1] = Append(@, files[i + 1])])

\* the tile index taken one too far: (i + 1) % num_tiles
RECURSIVE RoundRobinSkewFrom(_, _, _, _)
RoundRobinSkewFrom(files, T, i, distributed) ==
    IF i >= Len(files) THEN distributed
    ELSE RoundRobinSkewFrom(files, T, i + 1,
             [distributed EXCEPT ![((i + 1) % T) + 1] = Append(@, files[i + 1])])

RoundRobinSkew(files, T) ==
    RoundRobinSkewFrom(files, T, 0, [t \in 1..T |-> <<>>])

RoundRobin(files, T) ==
    RoundRobinFrom(files, T, 0, [t \in 1..T |-> <<>>])

\* for i in range(num_tiles): chunk_size = videos_per_tile + (1 if i < remainder else 0)
RECURSIVE ChunksFrom(_, _, _, _, _)
ChunksFrom(files, T, i, start_idx, distributed) ==
    IF i >= T THEN distributed
    ELSE LET videos_per_tile == Len(files) \div T
             remainder == Len(files) % T
             chunk_size == videos_per_tile + (IF i < remainder THEN 1 ELSE 0)
             end_idx == start_idx + chunk_size
         IN  ChunksFrom(files, T, i + 1, end_idx,
                 Append(distributed, Slice(files, start_idx, end_idx)))

\* a block size rounded up instead of down, with no remainder handling
ChunksCeil(files, T) ==
    LET c == (Len(files) + T - 1) \div T
    IN  [t \in 1..T |-> Slice(files, (t - 1) * c, t * c)]

\* the remainder forgotten: every block has floor(N / T) clips
ChunksFloor(files, T) ==
    LET c == Len(files) \div T
    IN  [t \in 1..T |-> Slice(files, (t - 1) * c, t * c)]

Chunks(files, T) == ChunksFrom(files, T, 0, 0, <<>>)

\* the copy shuffled before the mode is looked at
DistributeVideosShuffleFirst(files, T, m, shuffled) ==
    IF m = "round-robin" THEN RoundRobin(shuffled, T)
    ELSE IF m = "sequential" THEN Chunks(shuffled, T)
    ELSE IF m = "random" THEN Chunks(shuffled, T)
    ELSE RoundRobin(shuffled, T)

\* the shuffled copy cut into blocks of ceil(N / T) clips
DistributeVideosRandomCeil(files, T, m, shuffled) ==
    IF m = "round-robin" THEN RoundRobin(files, T)
    ELSE IF m = "sequential" THEN Chunks(files, T)
    ELSE IF m = "random" THEN ChunksCeil(shuffled, T)
    ELSE RoundRobin(files, T)

\* shuffled: what random.shuffle leaves in the copy; the generator is the
\* process-global one, which nothing seeds, so any reordering may come out.
\* Only the random mode calls it.
DistributeVideos(files, T, m, shuffled) ==
    IF m = "round-robin" THEN RoundRobin(files, T)
    ELSE IF m = "sequential" THEN Chunks(files, T)
    ELSE IF m = "random" THEN Chunks(shuffled, T)
    ELSE RoundRobin(files, T)

\* the caller's list after the call: no mode writes to it, the random
\* mode shuffles video_files.copy()                     lines 334-335
VideoFilesAfter(files, m, shuffled) == files

\* ================================================================
\* texts the code builds with f-strings
\* ================================================================
Digits == <<"0", "1", "2", "3", "4", "5", "6", "7", "8", "9">>

\* str(n) / f"{n}" for an integer n >= 0
RECURSIVE Dec(_)
Dec(n) == IF n < 10 THEN <<Digits[n + 1]>>
          ELSE Dec(n \div 10) \o <<Digits[(n % 10) + 1]>>

\* f"{i}:v", f"{i}:a": the raw streams of input i
InV(i) == Dec(i) \o <<":", "v">>

InA(i) == Dec(i) \o <<":", "a">>

\* f"v{i}", f"a{i}": the normalized streams of clip i
LabelV(i) == <<"v">> \o Dec(i)

LabelA(i) == <<"a">> \o Dec(i)

\* f"v{i}{i}", f"a{i}{i}": the merged streams after cross-fade i
\* every cross-fade named as the last one: 'outv'
MergedVOut(i) == <<"o", "u", "t", "v">>

MergedV(i) == <<"v">> \o Dec(i) \o Dec(i)

MergedA(i) == <<"a">> \o Dec(i) \o Dec(i)

\* f"vf{i}", f"af{i}": the faded streams of clip i (tiling workflow)
FadedV(i) == <<"v", "f">> \o Dec(i)

FadedA(i) == <<"a", "f">> \o Dec(i)

OutV == <<"o", "u", "t", "v">>

OutA == <<"o", "u", "t", "a">>

\* ================================================================
\* get_video_info                         src/tile_videos.py:355-380
\*                                        src/concat_videos.py:64-94
\* The probe is external: what it returns for a clip is an input, held
\* in info[clip]: None, or Some(duration).
\* ================================================================
ProbeResults == {None} \cup {Some(d) : d \in 0..MaxDur}

\* every clip answered with the first clip's properties
GetVideoInfoOfFirst(inf, video) == inf[1]

GetVideoInfo(inf, video) == inf[video]

\* ================================================================
\* build_tile_with_transitions             src/tile_videos.py:450-573
\* One entry of filter_parts is [ins, filters, outs]: the input pads, the
\* chain of filters, the output labels.
\* ================================================================

\* for i in range(num_videos): the two normalizing entries of clip i
RECURSIVE TileScaleParts(_, _)
TileScaleParts(num_videos, i) ==
    IF i >= num_videos THEN <<>>
    ELSE << [ins |-> <<InV(i)>>,
             filters |-> <<[f |-> "scale_base"], [f |-> "setsar"], [f |-> "fps"]>>,
             outs |-> <<LabelV(i)>>],
            [ins |-> <<InA(i)>>,
             filters |-> <<[f |-> "aformat"]>>,
             outs |-> <<LabelA(i)>>] >>
         \o TileScaleParts(num_videos, i + 1)

\* offsets = [0]; for i, video in enumerate(video_files[:-1]): ...
RECURSIVE TileOffsetsFrom(_, _, _, _, _)
TileOffsetsFrom(files, inf, d, k, offsets) ==
    IF k >= Len(files) - 1 THEN offsets
    ELSE LET i_ == GetVideoInfo(inf, files[k + 1])
         IN  TileOffsetsFrom(files, inf, d, k + 1,
                 IF i_ # None
                 THEN Append(offsets, offsets[Len(offsets)] + i_[1] - d)
                 ELSE offsets)

\* the overlap not subtracted: offsets are the plain cumulative durations
TileOffsetsNoOverlap(files, inf, d) == TileOffsetsFrom(files, inf, 0, 0, <<0>>)

\* the loop run over video_files instead of video_files[:-1]
TileOffsetsAllClips(files, inf, d) ==
    IF files = <<>> THEN <<0>>
    ELSE TileOffsetsFrom(Append(files, files[1]), inf, d, 0, <<0>>)

TileOffsets(files, inf, d) == TileOffsetsFrom(files, inf, d, 0, <<0>>)

\* for i in range(1, num_videos): one xfade and one acrossfade entry.
\* offsets[i] raises IndexError when the list is too short.
RECURSIVE TileXfadeFrom(_, _, _, _, _, _, _)
TileXfadeFrom(num_videos, d, offsets, i, current_v, current_a, parts) ==
    IF i >= num_videos THEN [exc |-> "none", filter_parts |-> parts]
    ELSE LET next_label_v == IF i < num_videos - 1 THEN MergedV(i) ELSE OutV
             next_label_a == IF i < num_videos - 1 THEN MergedA(i) ELSE OutA
         IN  IF i >= Len(offsets)
             THEN [exc |-> "IndexError", filter_parts |-> parts]
             ELSE TileXfadeFrom(num_videos, d, offsets, i + 1,
                      next_label_v, next_label_a,
                      parts \o
                      << [ins |-> <<current_v, LabelV(i)>>,
                          filters |-> <<[f |-> "xfade", duration |-> d,
                                         offset |-> offsets[i + 1]]>>,
                          outs |-> <<next_label_v>>],
                         [ins |-> <<current_a, LabelA(i)>>,
                          filters |-> <<[f |-> "acrossfade", d |-> d]>>,
                          outs |-> <<next_label_a>>] >>)

\* the fadeblack loop; a clip without info is skipped (continue)
RECURSIVE TileFadeblackFrom(_, _, _, _, _, _)
TileFadeblackFrom(files, inf, fade_time, i, parts, concat_inputs) ==
    IF i >= Len(files)
    THEN [filter_parts |-> parts, concat_inputs |-> concat_inputs]
    ELSE LET i_ == GetVideoInfo(inf, files[i + 1])
             vid_duration == i_[1]
             fout(name) == [f |-> name, t |-> "out",
                            st |-> vid_duration - fade_time, d |-> fade_time]
             fin(name) == [f |-> name, t |-> "in", st |-> 0, d |-> fade_time]
             chain(name) == IF i = 0 THEN <<fout(name)>>
                            ELSE IF i = Len(files) - 1 THEN <<fin(name)>>
                            ELSE <<fin(name), fout(name)>>
         IN  IF i_ = None
             THEN TileFadeblackFrom(files, inf, fade_time, i + 1, parts, concat_inputs)
             ELSE TileFadeblackFrom(files, inf, fade_time, i + 1,
                      parts \o
                      << [ins |-> <<LabelV(i)>>, filters |-> chain("fade"),
                          outs |-> <<FadedV(i)>>],
                         [ins |-> <<LabelA(i)>>, filters |-> chain("afade"),
                          outs |-> <<FadedA(i)>>] >>,
                      concat_inputs \o <<FadedV(i), FadedA(i)>>)

\* the result: exc ("none", or the exception that leaves the function),
\* the filter_parts built (so far, when it raised), the offsets list, and
\* the labels the command maps
BuildTileWithTransitions(files, inf, tt, d) ==
    LET num_videos == Len(files)
        scaled == TileScaleParts(num_videos, 0)
    IN  IF tt = "fade"
        THEN LET offsets == TileOffsets(files, inf, d)
                 x == TileXfadeFrom(num_videos, d, offsets, 1,
                                    LabelV(0), LabelA(0), scaled)
             IN  [exc |-> x.exc, filter_parts |-> x.filter_parts,
                  offsets |-> offsets, maps |-> <<OutV, OutA>>]
        ELSE LET fade_time == d \div 2
                 fb == TileFadeblackFrom(files, inf, fade_time, 0, scaled, <<>>)
             IN  [exc |-> "none",
                  filter_parts |-> Append(fb.filter_parts,
                      [ins |-> fb.concat_inputs,
                       filters |-> <<[f |-> "concat", n |-> num_videos]>>,
                       outs |-> <<OutV, OutA>>]),
                  offsets |-> <<>>, maps |-> <<OutV, OutA>>]

\* the files get_video_info is called on: a clip, the tile written
\* (tile_{i}.mp4), the output of the workflow
ClipFile(c) == [kind |-> "clip", n |-> c]

TileFile(i) == [kind |-> "tile", n |-> i]

OutputFile == [kind |-> "output", n |-> 0]

\* the calls of build_tile_with_transitions: lines 498 (for video in
\* video_files[:-1]) and 522 (for i, video in enumerate(video_files))
BuildTileProbes(files, tt) ==
    IF tt = "fade"
    THEN [k \in 1..(IF files = <<>> THEN 0 ELSE Len(files) - 1) |-> ClipFile(files[k])]
    ELSE [k \in 1..Len(files) |-> ClipFile(files[k])]

\* ================================================================
\* create_tile_video                       src/tile_videos.py:382-448
\* The result: files (the argument), ret (None, or Some(duration)), exc,
\* how the command reads its inputs (via), its filter_parts and mapped
\* labels, and how many times the media engine was run.
\* ================================================================

\* the early return on an empty list left out
TileCommandNoGuard(files, inf, tt, d) ==
    IF tt = "cut"
    THEN [files |-> files, ret |-> None, exc |-> "none",
          via |-> IF Len(files) = 1 THEN "single" ELSE "concat_demuxer",
          filter_parts |-> <<>>, maps |-> <<>>, offsets |-> <<>>,
          engine_runs |-> 0]
    ELSE LET b == BuildTileWithTransitions(files, inf, tt, d)
         IN  [files |-> files, ret |-> None, exc |-> b.exc,
              via |-> "filter_complex", filter_parts |-> b.filter_parts,
              maps |-> IF b.exc = "none" THEN b.maps ELSE <<>>,
              offsets |-> b.offsets, engine_runs |-> 0]

\* lines 384-434: the early return and the command
TileCommand(files, inf, tt, d) ==
    LET cmd(via, parts, maps, offsets) ==
            [files |-> files, ret |-> None, exc |-> "none", via |-> via,
             filter_parts |-> parts, maps |-> maps, offsets |-> offsets,
             engine_runs |-> 0]
    IN  IF files = <<>> THEN cmd("none", <<>>, <<>>, <<>>)
        ELSE IF Len(files) = 1 /\ tt = "cut" THEN cmd("single", <<>>, <<>>, <<>>)
        ELSE IF tt = "cut" THEN cmd("concat_demuxer", <<>>, <<>>, <<>>)
        ELSE LET b == BuildTileWithTransitions(files, inf, tt, d)
             IN  [files |-> files, ret |-> None, exc |-> b.exc,
                  via |-> "filter_complex", filter_parts |-> b.filter_parts,
                  maps |-> IF b.exc = "none" THEN b.maps ELSE <<>>,
                  offsets |-> b.offsets, engine_runs |-> 0]

\* lines 436-448: the engine runs the command, then the tile is probed
\* engine_ok: subprocess.run(cmd) did not raise CalledProcessError
\* out_info:  what get_video_info returns for the tile written
RunTileCommand(c, engine_ok, out_info) ==
    IF c.via = "none" \/ c.exc # "none" THEN c
    ELSE [c EXCEPT !.engine_runs = 1,
                   !.ret = IF engine_ok
                           THEN (IF out_info # None THEN Some(out_info[1])
                                 ELSE Some(0))
                           ELSE None]

CreateTileVideo(files, inf, tt, d, engine_ok, out_info) ==
    RunTileCommand(TileCommand(files, inf, tt, d), engine_ok, out_info)

\* the get_video_info calls of create_tile_video for tile i, given its
\* result r: those of build_tile_with_transitions, then line 442
CreateTileProbes(r, tt, i) ==
    (IF r.via = "filter_complex" THEN BuildTileProbes(r.files, tt) ELSE <<>>)
    \o (IF r.ret # None THEN <<TileFile(i)>> ELSE <<>>)

\* ================================================================
\* build_xfade_filter                      src/concat_videos.py:178-209
\* ================================================================
RECURSIVE XfadeScaleParts(_, _)
XfadeScaleParts(num_videos, i) ==
    IF i >= num_videos THEN <<>>
    ELSE << [ins |-> <<InV(i)>>,
             filters |-> <<[f |-> "scale"], [f |-> "pad"], [f |-> "setsar"],
                           [f |-> "fps"]>>,
             outs |-> <<LabelV(i)>>],
            [ins |-> <<InA(i)>>,
             filters |-> <<[f |-> "aformat"]>>,
             outs |-> <<LabelA(i)>>] >>
         \o XfadeScaleParts(num_videos, i + 1)

RECURSIVE XfadeOffsetsFrom(_, _, _, _, _)
XfadeOffsetsFrom(files, inf, d, k, offsets) ==
    IF k >= Len(files) - 1 THEN offsets
    ELSE LET i_ == GetVideoInfo(inf, files[k + 1])
         IN  XfadeOffsetsFrom(files, inf, d, k + 1,
                 IF i_ # None
                 THEN Append(offsets, offsets[Len(offsets)] + i_[1] - d)
                 ELSE offsets)

XfadeOffsets(files, inf, d) == XfadeOffsetsFrom(files, inf, d, 0, <<0>>)

RECURSIVE XfadeChainFrom(_, _, _, _, _, _, _)
XfadeChainFrom(num_videos, d, offsets, i, current_v, current_a, parts) ==
    IF i >= num_videos THEN [exc |-> "none", filter_parts |-> parts]
    ELSE LET next_label_v == IF i < num_videos - 1 THEN MergedV(i) ELSE OutV
             next_label_a == IF i < num_videos - 1 THEN MergedA(i) ELSE OutA
         IN  IF i >= Len(offsets)
             THEN [exc |-> "IndexError", filter_parts |-> parts]
             ELSE XfadeChainFrom(num_videos, d, offsets, i + 1,
                      next_label_v, next_label_a,
                      parts \o
                      << [ins |-> <<current_v, LabelV(i)>>,
                          filters |-> <<[f |-> "xfade", duration |-> d,
                                         offset |-> offsets[i + 1]]>>,
                          outs |-> <<next_label_v>>],
                         [ins |-> <<current_a, LabelA(i)>>,
                          filters |-> <<[f |-> "acrossfade", d |-> d]>>,
                          outs |-> <<next_label_a>>] >>)

BuildXfadeFilter(files, inf, d) ==
    LET offsets == XfadeOffsets(files, inf, d)
        x == XfadeChainFrom(Len(files), d, offsets, 1, LabelV(0), LabelA(0),
                            XfadeScaleParts(Len(files), 0))
    IN  [exc |-> x.exc, filter_parts |-> x.filter_parts, offsets |-> offsets]

\* ================================================================
\* build_fadeblack_filter                  src/concat_videos.py:211-267
\* ================================================================
RECURSIVE FadeblackFrom(_, _, _, _, _, _)
FadeblackFrom(files, inf, fade_time, i, parts, concat_inputs) ==
    IF i >= Len(files)
    THEN [filter_parts |-> parts, concat_inputs |-> concat_inputs]
    ELSE LET i_ == GetVideoInfo(inf, files[i + 1])
             vid_duration == i_[1]
             fout(name) == [f |-> name, t |-> "out",
                            st |-> vid_duration - fade_time, d |-> fade_time]
             fin(name) == [f |-> name, t |-> "in", st |-> 0, d |-> fade_time]
             chain(name) == IF i = 0 THEN <<fout(name)>>
                            ELSE IF i = Len(files) - 1 THEN <<fin(name)>>
                            ELSE <<fin(name), fout(name)>>
         IN  IF i_ = None
             THEN FadeblackFrom(files, inf, fade_time, i + 1, parts, concat_inputs)
             ELSE FadeblackFrom(files, inf, fade_time, i + 1,
                      parts \o
                      << [ins |-> <<InV(i)>>,
                          filters |-> <<[f |-> "scale"], [f |-> "pad"],
                                        [f |-> "setsar"], [f |-> "fps"]>>
                                      \o chain("fade"),
                          outs |-> <<LabelV(i)>>],
                         [ins |-> <<InA(i)>>,
                          filters |-> <<[f |-> "aformat"]>> \o chain("afade"),
                          outs |-> <<LabelA(i)>>] >>,
                      concat_inputs \o <<LabelV(i), LabelA(i)>>)

BuildFadeblackFilter(files, inf, d) ==
    LET fade_time == d \div 2
        fb == FadeblackFrom(files, inf, fade_time, 0, <<>>, <<>>)
    IN  [exc |-> "none",
         filter_parts |-> Append(fb.filter_parts,
             [ins |-> fb.concat_inputs,
              filters |-> <<[f |-> "concat", n |-> Len(files)]>>,
              outs |-> <<OutV, OutA>>]),
         offsets |-> <<>>]

\* ================================================================
\* concat_simple_cut                       src/concat_videos.py:96-125
\* concat_with_transitions                 src/concat_videos.py:127-176
\* The result: files (the argument), ret (None when an exception left the
\* function, else Some(True/False)), exc, via, filter_parts, maps, offsets,
\* engine_runs.
\* ================================================================
ConcatSimpleCut(files, engine_ok) ==
    [files |-> files, ret |-> Some(engine_ok), exc |-> "none", via |-> "concat_demuxer_copy",
     filter_parts |-> <<>>, maps |-> <<>>, offsets |-> <<>>, engine_runs |-> 1]

ConcatWithTransitions(files, inf, tt, d, engine_ok) ==
    IF Len(files) < 2 THEN ConcatSimpleCut(files, engine_ok)
    ELSE IF GetVideoInfo(inf, files[1]) = None
    THEN [files |-> files, ret |-> Some(FALSE), exc |-> "none", via |-> "none",
          filter_parts |-> <<>>, maps |-> <<>>, offsets |-> <<>>,
          engine_runs |-> 0]
    ELSE LET b == IF tt = "fade" THEN BuildXfadeFilter(files, inf, d)
                  ELSE BuildFadeblackFilter(files, inf, d)
         IN  IF b.exc # "none"
             THEN [files |-> files, ret |-> None, exc |-> b.exc, via |-> "filter_complex",
                   filter_parts |-> b.filter_parts, maps |-> <<>>,
                   offsets |-> b.offsets, engine_runs |-> 0]
             ELSE [files |-> files, ret |-> Some(engine_ok), exc |-> "none",
                   via |-> "filter_complex", filter_parts |-> b.filter_parts,
                   maps |-> <<OutV, OutA>>, offsets |-> b.offsets,
                   engine_runs |-> 1]

\* ================================================================
\* process_folder                          src/concat_videos.py:304-353
\* The folder's transition settings are transition_type and duration.
\* ================================================================
ProcessFolder(files, inf, tt, d, engine_ok) ==
    IF files = <<>>
    THEN [files |-> files, ret |-> None, exc |-> "none", via |-> "none", filter_parts |-> <<>>,
          maps |-> <<>>, offsets |-> <<>>, engine_runs |-> 0]
    ELSE IF Len(files) = 1
    THEN [files |-> files, ret |-> None, exc |-> "none", via |-> "copy", filter_parts |-> <<>>,
          maps |-> <<>>, offsets |-> <<>>, engine_runs |-> 1]
    ELSE IF tt = "cut" THEN ConcatSimpleCut(files, engine_ok)
    ELSE ConcatWithTransitions(files, inf, tt, d, engine_ok)

\* the get_video_info calls of concat_with_transitions given its result
\* r: line 137, then build_xfade_filter's (line 191, video_files[:-1]) or
\* build_fadeblack_filter's (line 220, every clip)
ConcatProbes(r, tt) ==
    IF Len(r.files) < 2 THEN <<>>
    ELSE <<ClipFile(r.files[1])>>
         \o (IF r.via # "filter_complex" THEN <<>>
             ELSE IF tt = "fade"
             THEN [k \in 1..(Len(r.files) - 1) |-> ClipFile(r.files[k])]
             ELSE [k \in 1..Len(r.files) |-> ClipFile(r.files[k])])

\* the get_video_info calls of process_folder given its result r: the
\* listing (line 330), the concatenation's, the output's (line 349)
ProcessFolderProbes(r, tt) ==
    IF Len(r.files) < 2 THEN <<>>
    ELSE [k \in 1..Len(r.files) |-> ClipFile(r.files[k])]
         \o (IF tt = "cut" THEN <<>> ELSE ConcatProbes(r, tt))
         \o (IF r.ret = Some(TRUE) THEN <<OutputFile>> ELSE <<>>)

\* ================================================================
\* get_scale_filter                        src/tile_videos.py:254-288
\* A filter expression is the chain of its filters.  The x and y of a crop
\* are the texts the f-string writes: nothing (ffmpeg then centres the
\* crop), '0', f'iw-{width}', f'ih-{height}'.
\* ================================================================
Omitted == [base |-> "omitted", minus |-> 0]

Zero == [base |-> "0", minus |-> 0]

IwMinus(w) == [base |-> "iw", minus |-> w]

IhMinus(h) == [base |-> "ih", minus |-> h]

Crop(w, h, x, y) == [f |-> "crop", w |-> w, h |-> h, x |-> x, y |-> y]

Scale(w, h, foar) == [f |-> "scale", w |-> w, h |-> h, foar |-> foar]

Fps == [f |-> "fps", fps |-> 30]

\* each edge anchor kept apart from the corners: the other axis centred
CropFilterCentredEdges(w, h, pos) ==
    IF pos = "top" THEN Crop(w, h, Omitted, Zero)
    ELSE IF pos = "bottom" THEN Crop(w, h, Omitted, IhMinus(h))
    ELSE IF pos = "left" THEN Crop(w, h, Zero, Omitted)
    ELSE IF pos = "right" THEN Crop(w, h, IwMinus(w), Omitted)
    ELSE IF pos = "top-left" THEN Crop(w, h, Zero, Zero)
    ELSE IF pos = "top-right" THEN Crop(w, h, IwMinus(w), Zero)
    ELSE IF pos = "bottom-left" THEN Crop(w, h, Zero, IhMinus(h))
    ELSE IF pos = "bottom-right" THEN Crop(w, h, IwMinus(w), IhMinus(h))
    ELSE Crop(w, h, Omitted, Omitted)

\* the if/elif chain over crop_position    lines 259-278
CropFilter(w, h, pos) ==
    IF pos = "center" THEN Crop(w, h, Omitted, Omitted)
    ELSE IF pos = "top" THEN Crop(w, h, Zero, Zero)
    ELSE IF pos = "bottom" THEN Crop(w, h, Zero, IhMinus(h))
    ELSE IF pos = "left" THEN Crop(w, h, Zero, Zero)
    ELSE IF pos = "right" THEN Crop(w, h, IwMinus(w), Zero)
    ELSE IF pos = "top-left" THEN Crop(w, h, Zero, Zero)
    ELSE IF pos = "top-right" THEN Crop(w, h, IwMinus(w), Zero)
    ELSE IF pos = "bottom-left" THEN Crop(w, h, Zero, IhMinus(h))
    ELSE IF pos = "bottom-right" THEN Crop(w, h, IwMinus(w), IhMinus(h))
    ELSE Crop(w, h, Omitted, Omitted)

PadCentred(w, h) == [f |-> "pad", w |-> w, h |-> h, x |-> "(ow-iw)/2", y |-> "(oh-ih)/2"]

\* the copy of the chain in build_tile_with_transitions   lines 460-479
InlineCropFilter(w, h, pos) ==
    IF pos = "center" THEN Crop(w, h, Omitted, Omitted)
    ELSE IF pos = "top" THEN Crop(w, h, Zero, Zero)
    ELSE IF pos = "bottom" THEN Crop(w, h, Zero, IhMinus(h))
    ELSE IF pos = "left" THEN Crop(w, h, Zero, Zero)
    ELSE IF pos = "right" THEN Crop(w, h, IwMinus(w), Zero)
    ELSE IF pos = "top-left" THEN Crop(w, h, Zero, Zero)
    ELSE IF pos = "top-right" THEN Crop(w, h, IwMinus(w), Zero)
    ELSE IF pos = "bottom-left" THEN Crop(w, h, Zero, IhMinus(h))
    ELSE IF pos = "bottom-right" THEN Crop(w, h, IwMinus(w), IhMinus(h))
    ELSE Crop(w, h, Omitted, Omitted)

\* an unknown fit mode taken as 'stretch'
ScaleBaseStretchFallback(w, h, cm, pos) ==
    IF cm = "crop" THEN <<Scale(w, h, "increase"), InlineCropFilter(w, h, pos)>>
    ELSE IF cm = "pad" THEN <<Scale(w, h, "decrease"), PadCentred(w, h)>>
    ELSE <<Scale(w, h, "none")>>

\* scale_base of build_tile_with_transitions  src/tile_videos.py:458-487
ScaleBase(w, h, cm, pos) ==
    IF cm = "crop" THEN <<Scale(w, h, "increase"), InlineCropFilter(w, h, pos)>>
    ELSE IF cm = "pad" THEN <<Scale(w, h, "decrease"), PadCentred(w, h)>>
    ELSE IF cm = "stretch" THEN <<Scale(w, h, "none")>>
    ELSE <<Scale(w, h, "increase"), Crop(w, h, Omitted, Omitted)>>

\* f"{scale_base},setsar=1,fps=30": the chain each clip of a tile with
\* transitions is normalized with                            line 491
TileNormalizer(w, h, cm, pos) ==
    ScaleBase(w, h, cm, pos) \o <<[f |-> "setsar", sar |-> 1], Fps>>

GetScaleFilter(w, h, cm, pos) ==
    IF cm = "crop" THEN <<Scale(w, h, "increase"), CropFilter(w, h, pos), Fps>>
    ELSE IF cm = "pad" THEN <<Scale(w, h, "decrease"), PadCentred(w, h), Fps>>
    ELSE IF cm = "stretch" THEN <<Scale(w, h, "none"), Fps>>
    ELSE <<Scale(w, h, "increase"), Crop(w, h, Omitted, Omitted), Fps>>

\* ================================================================
\* get_layout_info                         src/tile_videos.py:575-589
\* None for a code the table does not hold.
\* ================================================================
GridCodes == {"2x1", "1x2", "2x2", "3x1", "1x3", "3x3"}

SpecialCodes == {"pip", "1+2", "2+1", "1+3"}

GetLayoutInfo(code) ==
    IF code = "2x1" THEN Some([count |-> 2, type |-> "grid", rows |-> 1, cols |-> 2])
    ELSE IF code = "1x2" THEN Some([count |-> 2, type |-> "grid", rows |-> 2, cols |-> 1])
    ELSE IF code = "2x2" THEN Some([count |-> 4, type |-> "grid", rows |-> 2, cols |-> 2])
    ELSE IF code = "3x1" THEN Some([count |-> 3, type |-> "grid", rows |-> 1, cols |-> 3])
    ELSE IF code = "1x3" THEN Some([count |-> 3, type |-> "grid", rows |-> 3, cols |-> 1])
    ELSE IF code = "3x3" THEN Some([count |-> 9, type |-> "grid", rows |-> 3, cols |-> 3])
    ELSE IF code = "pip" THEN Some([count |-> 2, type |-> "special"])
    ELSE IF code = "1+2" THEN Some([count |-> 3, type |-> "special"])
    ELSE IF code = "2+1" THEN Some([count |-> 3, type |-> "special"])
    ELSE IF code = "1+3" THEN Some([count |-> 4, type |-> "special"])
    ELSE None

\* ================================================================
\* build_grid_layout                       src/tile_videos.py:600-636
\* A command: exc, inputs (the files given with -i, in order),
\* filter_parts, maps (what -map names: a label, or a raw stream).
\* ================================================================

\* for row in range(rows): for col in range(cols): f"{x}_{y}"
RECURSIVE GridPositionsFrom(_, _, _, _, _, _, _)
GridPositionsFrom(rows, cols, tile_width, tile_height, row, col, layout_positions) ==
    IF row >= rows THEN layout_positions
    ELSE IF col >= cols
    THEN GridPositionsFrom(rows, cols, tile_width, tile_height, row + 1, 0,
                           layout_positions)
    ELSE LET x == col * tile_width
             y == row * tile_height
         IN  GridPositionsFrom(rows, cols, tile_width, tile_height, row, col + 1,
                               Append(layout_positions, <<x, y>>))

\* the loops nested the other way round: columns outside, rows inside
GridPositionsColumnMajor(rows, cols, tile_width, tile_height) ==
    [k \in 1..(rows * cols) |->
        <<((k - 1) \div rows) * tile_width, ((k - 1) % rows) * tile_height>>]

GridPositions(rows, cols, tile_width, tile_height) ==
    GridPositionsFrom(rows, cols, tile_width, tile_height, 0, 0, <<>>)

BuildGridLayout(rows, cols, tile_paths, audio_tile_, output_width, output_height) ==
    LET tile_width == output_width \div cols
        tile_height == output_height \div rows
        layout_positions == GridPositions(rows, cols, tile_width, tile_height)
        inputs == [k \in 1..Len(tile_paths) |-> InV(k - 1)]
    IN  [exc |-> "none",
         inputs |-> tile_paths,
         filter_parts |->
             << [ins |-> inputs,
                 filters |-> <<[f |-> "xstack", inputs |-> Len(tile_paths),
                                layout |-> layout_positions]>>,
                 outs |-> <<OutV>>] >>,
         maps |-> <<OutV, InA(audio_tile_)>>]

\* ================================================================
\* build_special_layout                    src/tile_videos.py:638-745
\* ================================================================
LMain == <<"m", "a", "i", "n">>

LPip == <<"p", "i", "p">>

LLeft == <<"l", "e", "f", "t">>

LRight == <<"r", "i", "g", "h", "t">>

LTop == <<"t", "o", "p">>

LBottom == <<"b", "o", "t", "t", "o", "m">>

LTopRight == LTop \o <<"_">> \o LRight

LBottomRight == LBottom \o <<"_">> \o LRight

LTopLeft == LTop \o <<"_">> \o LLeft

LBottomLeft == LBottom \o <<"_">> \o LLeft

\* 'b1', 'b2', 'b3'
LB(k) == <<"b">> \o Dec(k)

\* f"[{i}:v]scale={w}:{h}:force_original_aspect_ratio=increase,crop={w}:{h}[{label}]"
ScaleCropPart(i, w, h, label) ==
    [ins |-> <<InV(i)>>,
     filters |-> <<Scale(w, h, "increase"), Crop(w, h, Omitted, Omitted)>>,
     outs |-> <<label>>]

StackPart(ins, filter, label) ==
    [ins |-> ins, filters |-> <<filter>>, outs |-> <<label>>]

SpecialFilterParts(code, output_width, output_height) ==
    IF code = "pip"
    THEN LET main_w == output_width
             main_h == output_height
             pip_w == output_width \div 4
             pip_h == output_height \div 4
             pip_x == output_width - pip_w - 20
             pip_y == 20
         IN  << ScaleCropPart(0, main_w, main_h, LMain),
                ScaleCropPart(1, pip_w, pip_h, LPip),
                StackPart(<<LMain, LPip>>,
                          [f |-> "overlay", x |-> pip_x, y |-> pip_y], OutV) >>
    ELSE IF code = "1+2"
    THEN LET left_w == (output_width * 2) \div 3
             right_w == output_width \div 3
             right_h == output_height \div 2
         IN  << ScaleCropPart(0, left_w, output_height, LLeft),
                ScaleCropPart(1, right_w, right_h, LTopRight),
                ScaleCropPart(2, right_w, right_h, LBottomRight),
                StackPart(<<LTopRight, LBottomRight>>, [f |-> "vstack"], LRight),
                StackPart(<<LLeft, LRight>>, [f |-> "hstack"], OutV) >>
    ELSE IF code = "2+1"
    THEN LET left_w == output_width \div 3
             left_h == output_height \div 2
             right_w == (output_width * 2) \div 3
         IN  << ScaleCropPart(0, left_w, left_h, LTopLeft),
                ScaleCropPart(1, left_w, left_h, LBottomLeft),
                ScaleCropPart(2, right_w, output_height, LRight),
                StackPart(<<LTopLeft, LBottomLeft>>, [f |-> "vstack"], LLeft),
                StackPart(<<LLeft, LRight>>, [f |-> "hstack"], OutV) >>
    ELSE IF code = "1+3"
    THEN LET top_h == (output_height * 2) \div 3
             bottom_h == output_height \div 3
             bottom_w == output_width \div 3
         IN  << ScaleCropPart(0, output_width, top_h, LTop),
                ScaleCropPart(1, bottom_w, bottom_h, LB(1)),
                ScaleCropPart(2, bottom_w, bottom_h, LB(2)),
                ScaleCropPart(3, bottom_w, bottom_h, LB(3)),
                StackPart(<<LB(1), LB(2), LB(3)>>,
                          [f |-> "hstack", inputs |-> 3], LBottom),
                StackPart(<<LTop, LBottom>>, [f |-> "vstack"], OutV) >>
    ELSE <<>>

BuildSpecialLayout(code, tile_paths, audio_tile_, output_width, output_height) ==
    [exc |-> "none",
     inputs |-> tile_paths,
     filter_parts |-> SpecialFilterParts(code, output_width, output_height),
     maps |-> <<OutV, InA(audio_tile_)>>]

\* ================================================================
\* build_xstack_layout                     src/tile_videos.py:591-598
\* layout_info['type'] on None raises TypeError.
\* ================================================================
BuildXstackLayout(code, tile_paths, audio_tile_, output_width, output_height) ==
    LET layout_info == GetLayoutInfo(code)
    IN  IF layout_info = None
        THEN [exc |-> "TypeError", inputs |-> <<>>, filter_parts |-> <<>>,
              maps |-> <<>>]
        ELSE IF layout_info[1].type = "grid"
        THEN BuildGridLayout(layout_info[1].rows, layout_info[1].cols, tile_paths,
                             audio_tile_, output_width, output_height)
        ELSE BuildSpecialLayout(code, tile_paths, audio_tile_,
                                output_width, output_height)

\* ================================================================
\* inputs
\* ================================================================
\* the sorted listing of a folder with n clips
ClipList(n) == [k \in 1..n |-> k]

\* the three modes of DISTRIBUTION_MODES, and any other text (a settings
\* file may hold one), which distribute_videos treats as round-robin
Modes == {"round-robin", "sequential", "random", "unknown"}

\* transition durations: positive and even (see the conventions)
TDs == {2 * k : k \in 1..MaxTd}

\* (transition_type, duration): main() and get_transition_settings() keep
\* duration 0 for 'cut' and ask for a positive one otherwise
Settings == {<<"cut", 0>>} \cup ({"fade", "fadeblack"} \X TDs)

\* every clip of the folder probes alike
UniformInfos(n) == {[c \in 1..n |-> r] : r \in ProbeResults}

\* what the probe of a tile just written returns: nothing, a short tile, a
\* long one (durations of tiles are in tenths of a second)
TileInfos == {None, Some(1), Some(MaxDur)}

\* three clips of durations 10, 8, 6 joined with a transition duration of 2
Example == [info |-> <<Some(10), Some(8), Some(6)>>, duration |-> 2]

\* ================================================================
\* the tiling workflow, main()             src/tile_videos.py:747-1157
\* ================================================================
\* nothing synchronized or composed yet
ComposeIdle ==
    /\ layout_code = "2x1"
    /\ tile_durations = <<>>
    /\ audio_tile = 0
    /\ sync_idx = 0
    /\ synced = <<>>
    /\ final = None

\* the normalizer not called yet
FitIdle ==
    /\ width = 0
    /\ height = 0
    /\ crop_mode = "crop"
    /\ crop_position = "center"
    /\ scale_filter = None
    /\ scale_base = None

\* no tile being built
TilesIdle ==
    /\ video_files = <<>>
    /\ num_tiles = 0
    /\ mode = "none"
    /\ tiles = <<>>
    /\ again = None
    /\ info = <<>>
    /\ transition_type = "cut"
    /\ duration = 0
    /\ tile_idx = 0
    /\ tile = None
    /\ concat = None

\* the clips, the tile count and the settings before anything has run
InitTiles(n, T, m, inf, st) ==
    /\ video_files = ClipList(n)
    /\ num_tiles = T
    /\ mode = m
    /\ info = inf
    /\ transition_type = st[1]
    /\ duration = st[2]
    /\ pc = IF m = "none" THEN "build" ELSE "config"
    /\ tiles = IF m = "none" THEN <<ClipList(n)>> ELSE <<>>
    /\ again = None
    /\ tile_idx = 0
    /\ tile = None
    /\ concat = None
    /\ probed = <<>>

InitWith(n, T, m, inf, st) ==
    /\ InitTiles(n, T, m, inf, st)
    /\ ComposeIdle
    /\ FitIdle

\* the folders whose clips all probe alike: 'cut' reads no clip's info, and
\* the shuffled folders are the ones joined with 'cut'
FolderInputs ==
    {x \in (0..MaxClips) \X Modes \X Settings \X {None, Some(MaxDur)} :
        /\ x[3][1] = "cut" => x[4] = None
        /\ x[2] = "random" => x[3][1] = "cut"}

\* one folder for all tiles: its clips are distributed
Init ==
    \E T \in 1..MaxTiles, x \in FolderInputs :
        InitWith(x[1], T, x[2], [c \in 1..x[1] |-> x[4]], x[3])

\* distributed_videos = distribute_videos(all_videos, num_tiles, mode)
\*                                          src/tile_videos.py:909 (and 812)
Distribute ==
    /\ pc = "config"
    /\ \E shuffled \in Shuffles(video_files) :
           /\ tiles' = DistributeVideos(video_files, num_tiles, mode, shuffled)
           /\ video_files' = VideoFilesAfter(video_files, mode, shuffled)
    /\ pc' = "build"
    /\ UNCHANGED <<num_tiles, mode, again, info, transition_type,
                   duration, tile_idx, tile, concat>>
    /\ UNCHANGED <<composeVars, fitVars, probed>>

\* the same call once more, with the same arguments (a second run with the
\* saved settings, src/tile_videos.py:812)
DistributeAgain ==
    /\ pc = "build"
    /\ mode # "none"
    /\ again = None
    /\ \E shuffled \in Shuffles(video_files) :
           /\ again' = Some(DistributeVideos(video_files, num_tiles, mode, shuffled))
           /\ video_files' = VideoFilesAfter(video_files, mode, shuffled)
    /\ UNCHANGED <<num_tiles, mode, pc, tiles, info,
                   transition_type, duration, tile_idx, tile, concat>>
    /\ UNCHANGED <<composeVars, fitVars, probed>>

\* tile_paths: tile_{i}.mp4 for every tile built
TilePaths(n) == [k \in 1..n |-> k - 1]

\* a tile as the tile loop leaves it: not looped, its file as long as probed
Unsynced(ds) == [k \in 1..Len(ds) |->
                    [looped |-> FALSE, loops_needed |-> 0, length |-> ds[k]]]

\* one pass of the loop over tile_settings  src/tile_videos.py:1071-1082
\* pc: "sync" once every tile is built, "exit" after sys.exit(1),
\* "crash" when an exception left create_tile_video.  A tile built is
\* appended to tile_paths and its duration to tile_durations.
CreateTile ==
    /\ pc = "build"
    /\ concat = None
    /\ tile_idx < Len(tiles)
    /\ LET c == TileCommand(tiles[tile_idx + 1], info, transition_type, duration)
       IN  \E engine_ok \in BOOLEAN :
           \E out_info \in (IF engine_ok THEN TileInfos ELSE {None}) :
             LET r == RunTileCommand(c, engine_ok, out_info)
             IN  /\ tile' = Some(r)
                 /\ pc' = IF r.exc # "none" THEN "crash"
                          ELSE IF r.ret = None THEN "exit"
                          ELSE IF tile_idx + 1 = Len(tiles) THEN "sync"
                          ELSE "build"
                 /\ tile_idx' = IF r.exc = "none" /\ r.ret # None
                                THEN tile_idx + 1 ELSE tile_idx
                 /\ probed' = probed \o CreateTileProbes(r, transition_type,
                                                         tile_idx)
                 /\ tile_durations' = IF r.exc = "none" /\ r.ret # None
                                      THEN Append(tile_durations, r.ret[1])
                                      ELSE tile_durations
                 /\ synced' = Unsynced(tile_durations')
    /\ UNCHANGED <<video_files, num_tiles, mode, tiles, again, info,
                   transition_type, duration, concat>>
    /\ UNCHANGED <<layout_code, audio_tile, sync_idx, final, fitVars>>

Next == Distribute \/ CreateTile

Spec == Init /\ [][Next]_vars

\* ---------------------------------------------------------------
\* main() from the distribution to the final composition: the layout
\* chosen gives the tile count            src/tile_videos.py:861-1147
\* ---------------------------------------------------------------
MainCodes == {"2x1", "pip", "3x1", "1+2", "2x2"}

InitMain ==
    \E code \in MainCodes, x \in FolderInputs :
        /\ GetLayoutInfo(code)[1].count <= MaxTiles
        /\ x[2] \in {"sequential", "random"}
        /\ InitTiles(x[1], GetLayoutInfo(code)[1].count, x[2],
                     [c \in 1..x[1] |-> x[4]], x[3])
        /\ layout_code = code
        /\ tile_durations = <<>>
        /\ audio_tile = 0
        /\ sync_idx = 0
        /\ synced = <<>>
        /\ final = None
        /\ width = 1920
        /\ height = 1080
        /\ crop_mode = "crop"
        /\ crop_position = "center"
        /\ scale_filter = None
        /\ scale_base = None

\* ---------------------------------------------------------------
\* distributing twice
\* ---------------------------------------------------------------
InitTwice ==
    \E n \in 0..MaxClips, T \in 1..MaxTiles, m \in Modes :
        InitWith(n, T, m, [c \in 1..n |-> None], <<"cut", 0>>)

NextTwice == Distribute \/ DistributeAgain

SpecTwice == InitTwice /\ [][NextTwice]_vars

\* ================================================================
\* the synthesizers on one clip sequence: one tile of the tiling
\* workflow (its own folder), one folder of the concatenation workflow
\* ================================================================
InitSynth ==
    \/ \E n \in 0..MaxSynthClips, st \in Settings :
          \E inf \in [1..n -> ProbeResults] : InitWith(n, 1, "none", inf, st)
    \/ \E tt \in {"fade", "fadeblack"} :
          InitWith(Len(Example.info), 1, "none", Example.info,
                   <<tt, Example.duration>>)
    \/ \E n \in (MaxSynthClips + 1)..MaxManyClips, st \in Settings :
          \E inf \in UniformInfos(n) : InitWith(n, 1, "none", inf, st)

\* process_folder on the folder            src/concat_videos.py:304-353
ProcessFolderCall ==
    /\ concat = None
    /\ tile = None
    /\ mode = "none"
    /\ \E engine_ok \in BOOLEAN :
         LET r == ProcessFolder(video_files, info, transition_type, duration,
                                engine_ok)
         IN  /\ concat' = Some(r)
             /\ probed' = probed \o ProcessFolderProbes(r, transition_type)
    /\ UNCHANGED <<video_files, num_tiles, mode, pc, tiles, again, info,
                   transition_type, duration, tile_idx, tile>>
    /\ UNCHANGED <<composeVars, fitVars>>

\* concat_with_transitions applied to the folder's clips directly
ConcatCall ==
    /\ concat = None
    /\ tile = None
    /\ mode = "none"
    /\ transition_type # "cut"
    /\ \E engine_ok \in BOOLEAN :
         LET r == ConcatWithTransitions(video_files, info, transition_type,
                                        duration, engine_ok)
         IN  /\ concat' = Some(r)
             /\ probed' = probed \o ConcatProbes(r, transition_type)
    /\ UNCHANGED <<video_files, num_tiles, mode, pc, tiles, again, info,
                   transition_type, duration, tile_idx, tile>>
    /\ UNCHANGED <<composeVars, fitVars>>

NextSynth == CreateTile \/ ProcessFolderCall \/ ConcatCall

SpecSynth == InitSynth /\ [][NextSynth]_vars

\* ================================================================
\* the synchronizing loop of main()        src/tile_videos.py:1084-1127
\* ================================================================
\* the tolerance 0.1 of line 1089, in tenths of a second
Tolerance == 1

\* max(tile_durations)
MaxOf(ds) == CHOOSE m \in Range(ds) : \A k \in 1..Len(ds) : ds[k] <= m

\* every tile shorter than the longest, however little
NeedsLoopNoTolerance(d, max_duration) == d < max_duration

\* no tile is ever looped
NeedsLoopNever(d, max_duration) == FALSE

\* if duration < max_duration - 0.1                          line 1089
NeedsLoop(d, max_duration) == d < max_duration - Tolerance

\* the repetition count without the extra one
LoopsNeededNoExtra(max_duration, d) == max_duration \div d

\* the quotient rounded up before the extra one is added
LoopsNeededCeilExtra(max_duration, d) == ((max_duration + d - 1) \div d) + 1

\* loops_needed = int(max_duration / duration) + 1           line 1096
LoopsNeeded(max_duration, d) == (max_duration \div d) + 1

\* the file the engine writes from loops_needed copies of a tile of length
\* d, cut with -t max_duration
LoopedLength(loops_needed, d, max_duration) ==
    IF loops_needed * d < max_duration THEN loops_needed * d ELSE max_duration

\* one pass of the loop over zip(tile_paths, tile_durations)
\* pc: "compose" after the last pass, "exit" after sys.exit(1), "crash"
\* when max_duration / duration raises ZeroDivisionError
SyncTile ==
    /\ pc = "sync"
    /\ sync_idx < Len(tile_durations)
    /\ LET i == sync_idx + 1
           d == tile_durations[i]
           max_duration == MaxOf(tile_durations)
           after == IF i = Len(tile_durations) THEN "compose" ELSE "sync"
       IN  IF NeedsLoop(d, max_duration)
           THEN IF d = 0
                THEN /\ pc' = "crash"
                     /\ UNCHANGED <<sync_idx, synced>>
                ELSE \E engine_ok \in BOOLEAN :
                       LET loops_needed == LoopsNeeded(max_duration, d)
                       IN  IF engine_ok
                           THEN /\ synced' = [synced EXCEPT ![i] =
                                       [looped |-> TRUE,
                                        loops_needed |-> loops_needed,
                                        length |-> LoopedLength(loops_needed, d,
                                                                max_duration)]]
                                /\ sync_idx' = i
                                /\ pc' = after
                           ELSE /\ pc' = "exit"
                                /\ UNCHANGED <<sync_idx, synced>>
           ELSE /\ sync_idx' = i
                /\ pc' = after
                /\ UNCHANGED synced
    /\ UNCHANGED <<layout_code, tile_durations, audio_tile, final>>
    /\ UNCHANGED <<tileVars, fitVars, probed>>

\* the final composition                   src/tile_videos.py:1129-1147
\* final: the command of build_xstack_layout, whether the engine ran it,
\* and ret (None, or Some(TRUE) once the output is written); the output
\* is then probed (line 1141)
Compose ==
    /\ pc = "compose"
    /\ final = None
    /\ LET cmd == BuildXstackLayout(layout_code, TilePaths(Len(tile_durations)),
                                    audio_tile, width, height)
       IN  IF cmd.exc # "none"
           THEN /\ final' = Some([cmd |-> cmd, engine_runs |-> 0, ret |-> None])
                /\ pc' = "crash"
                /\ UNCHANGED probed
           ELSE \E engine_ok \in BOOLEAN :
                  /\ final' = Some([cmd |-> cmd, engine_runs |-> 1,
                                    ret |-> IF engine_ok THEN Some(TRUE) ELSE None])
                  /\ pc' = IF engine_ok THEN "done" ELSE "exit"
                  /\ probed' = IF engine_ok THEN Append(probed, OutputFile)
                                ELSE probed
    /\ UNCHANGED <<layout_code, tile_durations, audio_tile, sync_idx, synced>>
    /\ UNCHANGED <<tileVars, fitVars>>

NextMain == Distribute \/ CreateTile \/ SyncTile \/ Compose

SpecMain == InitMain /\ [][NextMain]_vars

\* the state after the tile loop: every tile built, its duration recorded
InitCompose(code, ds, a, w, h, at) ==
    /\ pc = at
    /\ layout_code = code
    /\ tile_durations = ds
    /\ audio_tile = a
    /\ sync_idx = IF at = "sync" THEN 0 ELSE Len(ds)
    /\ synced = Unsynced(ds)
    /\ final = None
    /\ width = w
    /\ height = h
    /\ crop_mode = "crop"
    /\ crop_position = "center"
    /\ scale_filter = None
    /\ scale_base = None
    /\ probed = <<>>
    /\ TilesIdle

\* durations of built tiles: short ones, and 5.0 s, 8.0 s and 12.0 s
SyncDurations == (0..MaxTileDur) \cup {50, 80, 120}

\* args.width, args.height
OutputSizes == {<<1920, 1080>>, <<1280, 720>>, <<100, 70>>}

\* main() builds as many tiles as the layout counts
InitSync ==
    \E n \in 2..MaxSyncTiles :
      \E code \in GridCodes \cup SpecialCodes :
        /\ GetLayoutInfo(code)[1].count = n
        /\ \E ds \in [1..n -> SyncDurations] :
               InitCompose(code, ds, 0, 1920, 1080, "sync")

NextSync == SyncTile \/ Compose

SpecSync == InitSync /\ [][NextSync]_vars

\* ================================================================
\* the layout builders on any list of tile files and any audio index:
\* what a settings file holds is not checked (lines 797-821), nor what a
\* caller of build_xstack_layout passes
\* ================================================================
LayoutCodes == GridCodes \cup SpecialCodes \cup {"unknown"}

InitLayout ==
    \E code \in LayoutCodes, n \in 1..MaxPaths, a \in 0..MaxPaths :
      \E size \in OutputSizes :
        InitCompose(code, [k \in 1..n |-> 0], a, size[1], size[2], "compose")

NextLayout == Compose

SpecLayout == InitLayout /\ [][NextLayout]_vars

\* ================================================================
\* the normalizer on any fit mode and anchor
\* ================================================================
CropModes == {"crop", "pad", "stretch"}

CropPositions == {"center", "top", "bottom", "left", "right", "top-left",
                  "top-right", "bottom-left", "bottom-right"}

\* tile_width, tile_height
TargetSizes == {<<640, 360>>, <<960, 1080>>, <<33, 35>>}

InitFit ==
    /\ pc = "fit"
    /\ TilesIdle
    /\ ComposeIdle
    /\ \E size \in TargetSizes : width = size[1] /\ height = size[2]
    /\ crop_mode \in CropModes \cup {"unknown"}
    /\ crop_position \in CropPositions \cup {"unknown"}
    /\ scale_filter = None
    /\ scale_base = None
    /\ probed = <<>>

\* scale_filter = get_scale_filter(width, height, crop_mode, crop_position)
\*                                          src/tile_videos.py:390
GetScaleFilterCall ==
    /\ pc = "fit"
    /\ scale_filter = None
    /\ scale_filter' = Some(GetScaleFilter(width, height, crop_mode, crop_position))
    /\ UNCHANGED <<pc, width, height, crop_mode, crop_position, scale_base>>
    /\ UNCHANGED <<tileVars, composeVars, probed>>

\* the inline copy in build_tile_with_transitions  src/tile_videos.py:458-487
ScaleBaseCall ==
    /\ pc = "fit"
    /\ scale_base = None
    /\ scale_base' = Some(ScaleBase(width, height, crop_mode, crop_position))
    /\ UNCHANGED <<pc, width, height, crop_mode, crop_position, scale_filter>>
    /\ UNCHANGED <<tileVars, composeVars, probed>>

NextFit == GetScaleFilterCall \/ ScaleBaseCall

SpecFit == InitFit /\ [][NextFit]_vars

\* ================================================================
\* properties of the distribution (Spec, SpecTwice)
\* ================================================================
Count(s, x) == Cardinality({k \in 1..Len(s) : s[k] = x})

IsPermutation(a, b) ==
    /\ Len(a) = Len(b)
    /\ \A x \in Range(a) \cup Range(b) : Count(a, x) = Count(b, x)

Distributed == pc # "config" /\ mode # "none"

NumClips == Len(video_files)

\* the tiles dealt back: round j takes the j-th clip of each tile that has one
RECURSIVE Interleave(_, _)
Interleave(ts, j) ==
    IF \A t \in 1..Len(ts) : Len(ts[t]) < j THEN <<>>
    ELSE LET round_ == [t \in 1..Len(ts) |->
                           IF Len(ts[t]) >= j THEN <<ts[t][j]>> ELSE <<>>]
         IN  Flatten(round_) \o Interleave(ts, j + 1)

\* the tile sizes of a split into contiguous blocks
BlockSizes(ts) ==
    \A t \in 1..Len(ts) :
        Len(ts[t]) = (NumClips \div num_tiles)
                     + (IF t - 1 < NumClips % num_tiles THEN 1 ELSE 0)

\* C1: in each of the three modes distribute_videos returns exactly
\* num_tiles sequences whose concatenation is a permutation of the input:
\* the clip count is kept, no clip is dropped or duplicated.
C1_DistributionIsPermutation ==
    (Distributed /\ mode \in {"round-robin", "sequential", "random"}) =>
        /\ Len(tiles) = num_tiles
        /\ SumLen(tiles) = NumClips
        /\ IsPermutation(Flatten(tiles), video_files)

C1_Witness ==
    /\ Distributed
    /\ mode = "random"
    /\ NumClips = MaxClips
    /\ num_tiles > 1
    /\ Flatten(tiles) # video_files
    /\ IsPermutation(Flatten(tiles), video_files)

\* C2: in round-robin mode tile i (0-indexed) holds exactly the clips at
\* input positions i, i+T, i+2T, ... in their original order, and dealing
\* the tiles back in round-robin order gives the original clip order.
C2_RoundRobinPositions ==
    (Distributed /\ mode = "round-robin") =>
        /\ Len(tiles) = num_tiles
        /\ \A t \in 1..num_tiles :
              /\ Len(tiles[t]) =
                     Cardinality({i \in 0..(NumClips - 1) : i % num_tiles = t - 1})
              /\ \A k \in 1..Len(tiles[t]) :
                     tiles[t][k] = video_files[(t - 1) + (k - 1) * num_tiles + 1]
        /\ Interleave(tiles, 1) = video_files

C2_Witness ==
    /\ Distributed
    /\ mode = "round-robin"
    /\ num_tiles > 1
    /\ \E t \in 1..num_tiles : Len(tiles[t]) >= 2
    /\ \E t \in 1..num_tiles : Len(tiles[t]) = 1
    /\ Interleave(tiles, 1) = video_files

\* C3: in sequential mode the tiles are contiguous blocks of the input in
\* order; tile i has floor(N/T) clips plus one iff i < N mod T; the sizes
\* sum to N, differ by at most one, and never grow from a tile to a later one.
C3_SequentialBlocks ==
    (Distributed /\ mode = "sequential") =>
        /\ Len(tiles) = num_tiles
        /\ Flatten(tiles) = video_files
        /\ BlockSizes(tiles)
        /\ SumLen(tiles) = NumClips
        /\ \A i, j \in 1..num_tiles :
              /\ Len(tiles[i]) - Len(tiles[j]) \in {-1, 0, 1}
              /\ i < j => Len(tiles[i]) >= Len(tiles[j])

C3_Witness ==
    /\ Distributed
    /\ mode = "sequential"
    /\ NumClips > num_tiles
    /\ NumClips % num_tiles # 0
    /\ Len(tiles[1]) = Len(tiles[num_tiles]) + 1

C5_EmptyTileFailsFast ==
    /\ (Distributed /\ NumClips < num_tiles) =>
          /\ Len(tiles) = num_tiles
          /\ Cardinality({t \in 1..num_tiles : tiles[t] = <<>>})
                 = num_tiles - NumClips
    /\ (tile # None /\ tile[1].files = <<>>) =>
          /\ tile[1].ret = None
          /\ tile[1].exc = "none"
          /\ tile[1].filter_parts = <<>>
          /\ tile[1].engine_runs = 0
          /\ pc = "exit"

C5_Witness ==
    /\ Distributed
    /\ 0 < NumClips
    /\ NumClips < num_tiles
    /\ tile_idx > 0
    /\ tile # None
    /\ tile[1].files = <<>>
    /\ tile[1].ret = None

\* ================================================================
\* properties of the synthesizers (SpecSynth)
\* ================================================================
\* the results at hand: of create_tile_video, of the concatenation
Plans == (IF tile # None THEN {tile[1]} ELSE {})
         \cup (IF concat # None THEN {concat[1]} ELSE {})

CrossFaded(r) == transition_type = "fade" /\ r.via = "filter_complex"

AllKnown(files) == \A k \in 1..Len(files) : info[files[k]] # None

NonDecreasing(o) == \A k \in 2..Len(o) : o[k - 1] <= o[k]

\* offset[0] = 0, offset[k] = offset[k-1] + duration(k-th clip) - duration
OffsetsAsSpecified(o, files) ==
    /\ Len(o) = Len(files)
    /\ o[1] = 0
    /\ \A k \in 2..Len(o) : o[k] = o[k - 1] + info[files[k - 1]][1] - duration

\* C6: over clips with known durations the cross-fade offsets are
\* offset[0] = 0 and offset[k] = offset[k-1] + duration(clip k) - duration
\* for every clip count; durations [10, 8, 6] with duration 2 give
\* [0, 8, 14]; the tiling and the concatenation workflow compute the same.
C6_CrossFadeOffsets ==
    /\ \A r \in Plans :
          (CrossFaded(r) /\ AllKnown(r.files)) =>
              /\ OffsetsAsSpecified(r.offsets, r.files)
              /\ (info = Example.info /\ duration = Example.duration)
                     => r.offsets = <<0, 8, 14>>
    /\ (transition_type = "fade" /\ AllKnown(video_files)) =>
          TileOffsets(video_files, info, duration)
              = XfadeOffsets(video_files, info, duration)

C6_Witness ==
    /\ tile # None
    /\ CrossFaded(tile[1])
    /\ tile[1].exc = "none"
    /\ info = Example.info
    /\ duration = Example.duration
    /\ tile[1].offsets = <<0, 8, 14>>

\* C7 as claimed: the offset sequence is non-decreasing iff every clip's
\* duration is >= duration.
C7_NonDecreasingIffAllClips ==
    \A r \in Plans :
        (CrossFaded(r) /\ AllKnown(r.files)) =>
            (NonDecreasing(r.offsets)
                <=> \A k \in 1..Len(r.files) : info[r.files[k]][1] >= duration)

\* C7 as amended: the offset sequence is non-decreasing iff every clip
\* other than the last whose duration is available has a duration >=
\* duration (the last clip's duration enters no offset, and a clip without
\* a duration adds no offset).
C7_NonDecreasingIffAllButLast ==
    \A r \in Plans :
        CrossFaded(r) =>
            (NonDecreasing(r.offsets)
                <=> \A k \in 1..(Len(r.files) - 1) :
                        info[r.files[k]] # None => info[r.files[k]][1] >= duration)

C7_Witness ==
    /\ tile # None
    /\ CrossFaded(tile[1])
    /\ Len(tile[1].files) >= 3
    /\ AllKnown(tile[1].files)
    /\ Len(tile[1].offsets) = Len(tile[1].files)
    /\ NonDecreasing(tile[1].offsets)
    /\ info[tile[1].files[Len(tile[1].files)]][1] < duration

\* a transition entry: one whose chain has a fade, cross-fade or audio fade
TransitionFilters == {"fade", "afade", "xfade", "acrossfade"}

HasFilter(parts, names) ==
    \E p \in 1..Len(parts) :
        \E q \in 1..Len(parts[p].filters) : parts[p].filters[q].f \in names

\* a clip whose duration an offset needs has none
NeededMissing(files) == \E k \in 1..(Len(files) - 1) : info[files[k]] = None

\* C8: in cross-fade synthesis, when the duration of a clip needed for an
\* offset is unavailable, synthesis fails with an error result: no
\* exception leaves the workflow, nothing is handed to the media engine
\* and no cross-fade entry is built.
C8_MissingDurationIsErrorResult ==
    \A r \in Plans :
        (transition_type = "fade" /\ Len(r.files) >= 2 /\ NeededMissing(r.files)) =>
            /\ r.exc = "none"
            /\ r.ret \in {None, Some(FALSE)}
            /\ r.engine_runs = 0
            /\ ~HasFilter(r.filter_parts, {"xfade", "acrossfade"})

\* C9: a tile or folder with exactly one clip is passed through: whichever
\* transition kind is asked for, no fade, cross-fade or audio-fade entry
\* is built.
C9_SingleClipHasNoTransition ==
    \A r \in Plans :
        Len(r.files) = 1 => ~HasFilter(r.filter_parts, TransitionFilters)

\* the labels the entries of a filter graph produce, in order
OutLabels(parts) == Flatten([p \in 1..Len(parts) |-> parts[p].outs])

\* C10: within one filter graph the synthesizer returns, for every clip
\* count, the output labels are pairwise distinct.
C10_LabelsAreDistinct ==
    \A r \in Plans :
        (r.via = "filter_complex" /\ r.exc = "none") =>
            LET L == OutLabels(r.filter_parts)
            IN  \A a, b \in 1..Len(L) : a # b => L[a] # L[b]

\* ================================================================
\* properties of the filter graphs (SpecSynth, SpecLayout)
\* ================================================================
\* the filter graphs at hand, each with the number n of files its command
\* gives with -i, its entries and the names its command maps
Graphs ==
    {[n |-> Len(r.files), parts |-> r.filter_parts, maps |-> r.maps] :
        r \in {q \in Plans : q.via = "filter_complex" /\ q.exc = "none"}}
    \cup (IF final # None /\ final[1].cmd.exc = "none"
          THEN {[n |-> Len(final[1].cmd.inputs),
                 parts |-> final[1].cmd.filter_parts,
                 maps |-> final[1].cmd.maps]}
          ELSE {})

\* a raw stream of an input ("0:v", "2:a") rather than a label
IsRaw(t) == \E k \in 1..Len(t) : t[k] = ":"

\* the raw stream t belongs to one of the n inputs
RawBound(t, n) == \E i \in 0..(n - 1) : t = InV(i) \/ t = InA(i)

\* the labels the entries before entry p produce
ProducedBefore(parts, p) ==
    {parts[q].outs[o] : <<q, o>> \in
        {qo \in (1..(p - 1)) \X (1..4) : qo[2] <= Len(parts[qo[1]].outs)}}

StageInputsDefined(g) ==
    \A p \in 1..Len(g.parts) :
        \A k \in 1..Len(g.parts[p].ins) :
            LET t == g.parts[p].ins[k]
            IN  IF IsRaw(t) THEN RawBound(t, g.n)
                ELSE t \in ProducedBefore(g.parts, p)

MapsDefined(g) ==
    \A k \in 1..Len(g.maps) :
        LET t == g.maps[k]
        IN  IF IsRaw(t) THEN RawBound(t, g.n)
            ELSE t \in ProducedBefore(g.parts, Len(g.parts) + 1)

\* C11: in every filter graph built (cross-fade, fade-to-black, every
\* special layout) each entry reads only raw streams of inputs the command
\* is given, or labels an earlier entry produces: no forward reference, no
\* undefined label, no cycle.
C11_InputsAreBoundOrProducedEarlier ==
    \A g \in Graphs : StageInputsDefined(g) /\ MapsDefined(g)

\* the entries joining the clips: those whose chain holds a concat
ConcatEntries(parts) ==
    {p \in 1..Len(parts) :
        \E q \in 1..Len(parts[p].filters) : parts[p].filters[q].f = "concat"}

\* the clips of files whose duration is available, as 0-based indices
KnownClips(files) == {i \in 0..(Len(files) - 1) : info[files[i + 1]] # None}

\* C12: in fade-to-black synthesis a clip whose duration is unavailable is
\* skipped without aborting; the faded clips left are joined, in order, by
\* exactly one concat entry whose declared input count n is the number of
\* faded clips fed to it, and which produces the two output labels.
C12_ConcatCountsTheFadedClips ==
    \A r \in Plans :
        (transition_type = "fadeblack" /\ r.via = "filter_complex") =>
            /\ r.exc = "none"
            /\ Cardinality(ConcatEntries(r.filter_parts)) = 1
            /\ \A p \in ConcatEntries(r.filter_parts) :
                  LET e == r.filter_parts[p]
                  IN  /\ Len(e.ins) = 2 * Cardinality(KnownClips(r.files))
                      /\ e.filters[1].n * 2 = Len(e.ins)
                      /\ e.outs = <<OutV, OutA>>
            /\ r.maps = <<OutV, OutA>>

\* ================================================================
\* properties of the synchronizing loop (SpecSync)
\* ================================================================
\* tile i (1-based) is shorter than the longest by more than the tolerance
Short(i) == tile_durations[i] < MaxOf(tile_durations) - Tolerance

SyncComplete == tile_durations # <<>> /\ sync_idx = Len(tile_durations)

LoopedTiles == {i \in 1..Len(synced) : synced[i].looped}

\* C13: the synchronizing loop loops exactly the tiles whose duration is
\* shorter than max_duration - 0.1 and leaves every other tile as it was;
\* for durations [12.0, 5.0, 12.0] exactly the second tile is looped.
C13_LoopsExactlyTheShortTiles ==
    tile_durations # <<>> =>
        /\ \A i \in 1..Len(tile_durations) :
              /\ i <= sync_idx => (synced[i].looped <=> Short(i))
              /\ i > sync_idx => ~synced[i].looped
              /\ ~synced[i].looped => synced[i] = Unsynced(tile_durations)[i]
        /\ (SyncComplete /\ tile_durations = <<120, 50, 120>>) => LoopedTiles = {2}

C13_Witness ==
    /\ pc = "compose"
    /\ SyncComplete
    /\ tile_durations = <<120, 50, 120>>
    /\ LoopedTiles = {2}
    /\ synced[1].length = 120
    /\ synced[3].length = 120

\* C14: once the synchronizing loop has passed every tile, every tile file
\* is as long as the longest, within the tolerance: its length lies in
\* [max_duration - 0.1, max_duration + 0.1].
C14_SameLengthWithinTolerance ==
    SyncComplete =>
        \A i \in 1..Len(synced) :
            /\ synced[i].length >= MaxOf(tile_durations) - Tolerance
            /\ synced[i].length <= MaxOf(tile_durations) + Tolerance

C14_Witness ==
    /\ pc = "compose"
    /\ SyncComplete
    /\ \E i \in LoopedTiles :
          /\ synced[i].loops_needed * tile_durations[i] > MaxOf(tile_durations)
          /\ synced[i].length = MaxOf(tile_durations)
    /\ \E j \in 1..Len(synced) :
          /\ ~synced[j].looped
          /\ synced[j].length = MaxOf(tile_durations) - Tolerance

\* C15: a probe that fails is never fatal: a tile whose probe failed, its
\* duration then recorded as 0, does not stop the workflow; the
\* synchronizing loop and the composition still run to their end.
C15_ZeroDurationTileIsNotFatal ==
    (\E i \in 1..Len(tile_durations) : tile_durations[i] = 0) => pc # "crash"

\* ================================================================
\* properties of the layout builders (SpecLayout)
\* ================================================================
Composed == final # None

NumPaths == Len(tile_durations)

LayoutKnown == GetLayoutInfo(layout_code) # None

LayoutInfo == GetLayoutInfo(layout_code)[1]

\* C16: for every layout, grid or special, when the number of tile files
\* differs from the layout's count the builder reports an arity mismatch
\* before any entry is built (a 2x2 grid given 3 tiles is refused), and
\* nothing is handed to the media engine.
C16_ArityMismatchIsReported ==
    (Composed /\ LayoutKnown /\ NumPaths # LayoutInfo.count) =>
        /\ final[1].cmd.exc = "ArityMismatch"
        /\ final[1].cmd.filter_parts = <<>>
        /\ final[1].engine_runs = 0

\* C17: a grid of rows x cols given rows * cols tiles gets one xstack entry
\* with rows * cols inputs, tile i (row-major, from 0) placed at
\* ((i mod cols) * cell width, (i div cols) * cell height), the cell being
\* width div cols by height div rows; for 2x2 the places are
\* (0,0), (cw,0), (0,ch), (cw,ch).
C17_GridPlacements ==
    (Composed /\ LayoutKnown /\ LayoutInfo.type = "grid"
              /\ NumPaths = LayoutInfo.count) =>
        LET rows == LayoutInfo.rows
            cols == LayoutInfo.cols
            cw == width \div cols
            ch == height \div rows
            parts == final[1].cmd.filter_parts
        IN  /\ rows * cols = NumPaths
            /\ Len(parts) = 1
            /\ Len(parts[1].filters) = 1
            /\ parts[1].filters[1].f = "xstack"
            /\ parts[1].filters[1].inputs = rows * cols
            /\ parts[1].ins = [k \in 1..(rows * cols) |-> InV(k - 1)]
            /\ Len(parts[1].filters[1].layout) = rows * cols
            /\ \A i \in 0..(rows * cols - 1) :
                  parts[1].filters[1].layout[i + 1]
                      = <<(i % cols) * cw, (i \div cols) * ch>>
            /\ layout_code = "2x2" =>
                  parts[1].filters[1].layout
                      = << <<0, 0>>, <<cw, 0>>, <<0, ch>>, <<cw, ch>> >>

C17_Witness ==
    /\ Composed
    /\ layout_code = "2x2"
    /\ NumPaths = 4
    /\ width = 1920
    /\ height = 1080
    /\ final[1].cmd.filter_parts[1].filters[1].layout
           = << <<0, 0>>, <<960, 0>>, <<0, 540>>, <<960, 540>> >>

\* the audio streams a command maps
AudioMaps(maps) == {k \in 1..Len(maps) : \E i \in 0..MaxPaths : maps[k] = InA(i)}

\* an entry that reads or writes audio: one with a raw audio stream among
\* its inputs, or an audio filter in its chain
TouchesAudio(e) ==
    \/ \E k \in 1..Len(e.ins) : \E i \in 0..MaxPaths : e.ins[k] = InA(i)
    \/ \E q \in 1..Len(e.filters) : e.filters[q].f \in {"amix", "amerge", "aformat"}

\* C18: for every layout the final command maps exactly one audio stream,
\* the raw audio of input audio_tile, no entry mixes the audio of several
\* tiles, and audio_tile names one of the tile files given.
C18_OneAudioOfASuppliedTile ==
    (Composed /\ final[1].cmd.exc = "none") =>
        LET cmd == final[1].cmd
        IN  /\ Cardinality(AudioMaps(cmd.maps)) = 1
            /\ \A k \in AudioMaps(cmd.maps) : cmd.maps[k] = InA(audio_tile)
            /\ \A p \in 1..Len(cmd.filter_parts) : ~TouchesAudio(cmd.filter_parts[p])
            /\ audio_tile \in 0..(Len(cmd.inputs) - 1)

\* ================================================================
\* properties of the normalizer (SpecFit)
\* ================================================================
\* the value of a crop's x or y for an input extent and the crop's extent;
\* ffmpeg centres a crop whose x or y is not given
OriginOf(e, in_, out_) ==
    IF e.base = "omitted" THEN (in_ - out_) \div 2
    ELSE IF e.base = "0" THEN 0
    ELSE in_ - e.minus

\* the frames the covering scale can hand to a crop of w x h: one extent
\* exact, the other with some excess
ScaledFrames(w, h) ==
    {<<w + dx, h>> : dx \in 0..MaxExcess} \cup {<<w, h + dy>> : dy \in 0..MaxExcess}

\* what a crop removes at each edge of a frame iw x ih
Removed(c, iw, ih) ==
    LET x == OriginOf(c.x, iw, c.w)
        y == OriginOf(c.y, ih, c.h)
    IN  [left |-> x, right |-> iw - c.w - x, top |-> y, bottom |-> ih - c.h - y]

Even(a, b) == a - b \in {-1, 0, 1}

\* the anchor's meaning: nothing is removed at an anchored edge; across an
\* axis the anchor does not name, both edges give evenly
AnchorKept(pos, r) ==
    /\ pos \in {"top", "top-left", "top-right"} => r.top = 0
    /\ pos \in {"bottom", "bottom-left", "bottom-right"} => r.bottom = 0
    /\ pos \in {"left", "top-left", "bottom-left"} => r.left = 0
    /\ pos \in {"right", "top-right", "bottom-right"} => r.right = 0
    /\ pos \in {"center", "top", "bottom"} => Even(r.left, r.right)
    /\ pos \in {"center", "left", "right"} => Even(r.top, r.bottom)

\* the expressions at hand: of get_scale_filter, of the inline copy
FitResults == (IF scale_filter # None THEN {scale_filter[1]} ELSE {})
              \cup (IF scale_base # None THEN {scale_base[1]} ELSE {})

\* C19: in crop mode the anchor determines the crop origin for every
\* target size: center gives evenly on both axes, an edge anchor takes
\* pixels only from the opposite edge, a corner anchor from the two
\* opposite edges; bottom-right gives the origin (iw - W, ih - H).
C19_AnchorDeterminesCropOrigin ==
    (crop_mode = "crop" /\ crop_position \in CropPositions) =>
        \A e \in FitResults :
            /\ e[2].f = "crop"
            /\ e[2].w = width
            /\ e[2].h = height
            /\ \A fr \in ScaledFrames(width, height) :
                  AnchorKept(crop_position, Removed(e[2], fr[1], fr[2]))
            /\ crop_position = "bottom-right" =>
                  /\ e[2].x = IwMinus(width)
                  /\ e[2].y = IhMinus(height)

\* C20: an unknown fit mode or an unknown anchor is rejected before
\* anything is computed: no filter expression is built for it.
C20_UnknownParameterIsRejected ==
    (crop_mode \notin CropModes
        \/ (crop_mode = "crop" /\ crop_position \notin CropPositions)) =>
        FitResults = {}

\* ================================================================
\* C21  probing at most once per file
\* ================================================================
\* how many get_video_info calls were made on file f
ProbeCalls(f) == Count(probed, f)

\* C21: within one run, get_video_info is invoked at most once on any file
C21_ProbedAtMostOncePerPath ==
    \A k \in 1..Len(probed) : ProbeCalls(probed[k]) <= 1

\* ================================================================
\* properties of the whole tiling workflow (SpecMain)
\* ================================================================
\* every tile of the layout is built and its duration recorded
AllBuilt ==
    /\ pc # "config"
    /\ Len(tiles) = num_tiles
    /\ tile_idx = num_tiles
    /\ Len(tile_durations) = num_tiles

\* the synchronizing loop has passed every tile and looped the short ones
AllSynced ==
    /\ SyncComplete
    /\ \A i \in 1..Len(tile_durations) : Short(i) => synced[i].looped

\* the last create_tile_video call returned None or raised
BuildFailed == tile # None /\ tile[1].ret = None

\* the workflow ended inside the synchronizing loop
LoopFailed ==
    /\ pc \in {"exit", "crash"}
    /\ tile_idx = Len(tiles)
    /\ sync_idx < Len(tile_durations)

\* C22: the stages run in the order distribute, build every tile,
\* synchronize, compose: a tile is built only after the distribution, the
\* synchronizing loop runs only once every tile is built, the composition
\* is invoked only once every tile is built and every short tile looped;
\* after a failed tile build or a failed loop step main() has ended and
\* nothing is composed.
C22_StagesRunInOrder ==
    /\ tile # None => (pc # "config" /\ Len(tiles) = num_tiles)
    /\ (sync_idx > 0 \/ LoopedTiles # {} \/ pc = "sync") => AllBuilt
    /\ (Composed \/ pc \in {"compose", "done"}) => (AllBuilt /\ AllSynced)
    /\ (BuildFailed \/ LoopFailed) => (~Composed /\ pc \in {"exit", "crash"})

C22_Witness ==
    /\ pc = "done"
    /\ Composed
    /\ final[1].ret = Some(TRUE)
    /\ mode = "random"
    /\ AllBuilt
    /\ LoopedTiles # {}
    /\ \E i \in 1..num_tiles : ~synced[i].looped

\* ================================================================
\* the cross-fade chain and the fade-to-black windows (SpecSynth)
\* ================================================================
\* the entries of a filter graph whose chain starts with the named filter
Stages(parts, name) == SelectSeq(parts, LAMBDA p : p.filters[1].f = name)

\* the label under which the stream of raw input x was normalized
NormalizedAs(parts, x, label) ==
    \E p \in 1..Len(parts) : parts[p].ins = <<x>> /\ parts[p].outs = <<label>>

\* a chain of n - 1 stages, left to right: stage 1 takes clip 0's stream,
\* stage i the output of stage i - 1, and each the stream of clip i; only
\* the last stage writes the label out
ChainedLeftToRight(parts, st, n, Raw(_), out) ==
    /\ Len(st) = n - 1
    /\ \A i \in 1..Len(st) :
          /\ Len(st[i].ins) = 2
          /\ Len(st[i].outs) = 1
          /\ IF i = 1 THEN NormalizedAs(parts, Raw(0), st[i].ins[1])
             ELSE st[i].ins[1] = st[i - 1].outs[1]
          /\ NormalizedAs(parts, Raw(i), st[i].ins[2])
          /\ (st[i].outs[1] = out) <=> (i = n - 1)
    /\ Count(OutLabels(parts), out) = 1

\* C23: a cross-fade graph over n >= 2 clips has exactly n - 1 xfade and
\* n - 1 acrossfade entries, chained left to right; only the last of each
\* writes 'outv' / 'outa', each written exactly once, and these are the
\* labels the command maps.
C23_CrossFadeChain ==
    \A r \in Plans :
        (CrossFaded(r) /\ r.exc = "none" /\ Len(r.files) >= 2) =>
            /\ ChainedLeftToRight(r.filter_parts, Stages(r.filter_parts, "xfade"),
                                  Len(r.files), InV, <<"o", "u", "t", "v">>)
            /\ ChainedLeftToRight(r.filter_parts,
                                  Stages(r.filter_parts, "acrossfade"),
                                  Len(r.files), InA, <<"o", "u", "t", "a">>)
            /\ r.maps = << <<"o", "u", "t", "v">>, <<"o", "u", "t", "a">> >>

C23_Witness ==
    /\ tile # None
    /\ CrossFaded(tile[1])
    /\ tile[1].exc = "none"
    /\ Len(tile[1].files) = 3
    /\ Len(Stages(tile[1].filter_parts, "xfade")) = 2
    /\ Len(Stages(tile[1].filter_parts, "acrossfade")) = 2
    /\ tile[1].ret # None

\* the fade-to-black graphs at hand
FadedToBlack(r) == transition_type = "fadeblack" /\ r.via = "filter_complex"

\* the filters named name in the entries that read clip i's stream (its
\* raw stream x in the concatenation workflow, its normalized stream in
\* the tiling workflow), in order
RECURSIVE FadesOf(_, _, _)
FadesOf(parts, ins, name) ==
    IF parts = <<>> THEN <<>>
    ELSE (IF Head(parts).ins \in ins
          THEN SelectSeq(Head(parts).filters, LAMBDA q : q.f = name)
          ELSE <<>>)
         \o FadesOf(Tail(parts), ins, name)

\* the windows of clip i (0-based) of n, of length D, with half-window h
WindowsAsSpecified(name, i, n, D, h) ==
    LET out == [f |-> name, t |-> "out", st |-> D - h, d |-> h]
        in_ == [f |-> name, t |-> "in", st |-> 0, d |-> h]
    IN  IF i = 0 THEN <<out>>
        ELSE IF i = n - 1 THEN <<in_>>
        ELSE <<in_, out>>

\* C24: with h half the transition duration, in a fade-to-black graph
\* over two or more clips the first clip gets only a fade-out starting at
\* its duration minus h and lasting h, the last clip only a fade-in
\* starting at 0 and lasting h, every clip between them both; the audio
\* fades have the same windows as the video fades.
C24_FadeToBlackWindows ==
    \A r \in Plans :
        (FadedToBlack(r) /\ Len(r.files) >= 2) =>
            \A k \in 1..Len(r.files) :
                LET i == k - 1
                    v == FadesOf(r.filter_parts, {<<InV(i)>>, <<LabelV(i)>>}, "fade")
                    a == FadesOf(r.filter_parts, {<<InA(i)>>, <<LabelA(i)>>}, "afade")
                IN  IF info[r.files[k]] = None THEN v = <<>> /\ a = <<>>
                    ELSE \E h \in 0..duration :
                           /\ 2 * h = duration
                           /\ v = WindowsAsSpecified("fade", i, Len(r.files),
                                                     info[r.files[k]][1], h)
                           /\ a = WindowsAsSpecified("afade", i, Len(r.files),
                                                     info[r.files[k]][1], h)

C24_Witness ==
    /\ concat # None
    /\ FadedToBlack(concat[1])
    /\ Len(concat[1].files) = 3
    /\ AllKnown(concat[1].files)
    /\ info[1][1] # info[2][1]
    /\ Len(FadesOf(concat[1].filter_parts, {<<InV(1)>>}, "fade")) = 2
    /\ Len(FadesOf(concat[1].filter_parts, {<<InV(0)>>}, "fade")) = 1
    /\ Len(FadesOf(concat[1].filter_parts, {<<InA(2)>>}, "afade")) = 1

\* ================================================================
\* the repetitions of a looped tile (SpecSync)
\* ================================================================
\* r is the quotient M / d rounded up, rounded down
IsCeil(r, M, d) == (r - 1) * d < M /\ M <= r * d

IsFloor(r, M, d) == r * d <= M /\ M < (r + 1) * d

\* C25 as claimed: a looped tile is repeated ceil(max_duration / duration)
\* + 1 times, and the file written is exactly max_duration long.
C25_RepeatsCeilPlusOne ==
    \A i \in LoopedTiles :
        /\ IsCeil(synced[i].loops_needed - 1, MaxOf(tile_durations),
                  tile_durations[i])
        /\ synced[i].length = MaxOf(tile_durations)

\* C25 as amended: a looped tile is repeated floor(max_duration / duration)
\* + 1 times, and the file written is exactly max_duration long.
C25_RepeatsFloorPlusOne ==
    \A i \in LoopedTiles :
        /\ IsFloor(synced[i].loops_needed - 1, MaxOf(tile_durations),
                   tile_durations[i])
        /\ synced[i].length = MaxOf(tile_durations)

C25_Witness ==
    /\ SyncComplete
    /\ \E i \in LoopedTiles :
          /\ MaxOf(tile_durations) % tile_durations[i] # 0
          /\ synced[i].loops_needed
                 = (MaxOf(tile_durations) \div tile_durations[i]) + 1
          /\ synced[i].length = MaxOf(tile_durations)
    /\ \E j \in LoopedTiles : MaxOf(tile_durations) % tile_durations[j] = 0

\* C27: for every looped tile, of positive duration d, with r repetitions
\* and the longest duration M: r * d >= M, so the cut at M never runs out
\* of material, and r >= 2.
C27_EnoughRepetitions ==
    \A i \in LoopedTiles :
        /\ tile_durations[i] > 0
        /\ synced[i].loops_needed * tile_durations[i] >= MaxOf(tile_durations)
        /\ synced[i].loops_needed >= 2

C27_Witness ==
    /\ SyncComplete
    /\ \E i \in LoopedTiles :
          /\ synced[i].loops_needed = 2
          /\ 2 * tile_durations[i] > MaxOf(tile_durations)
    /\ \E j \in LoopedTiles :
          /\ synced[j].loops_needed > 2
          /\ (synced[j].loops_needed - 1) * tile_durations[j]
                 = MaxOf(tile_durations)

\* ================================================================
\* the regions of the one-large-plus-two layouts (SpecLayout)
\* ================================================================
\* the entries that write one of the labels
Producers(parts, labels) ==
    SelectSeq(parts, LAMBDA p : \E k \in 1..Len(p.outs) : p.outs[k] \in labels)

\* the frame an entry of build_special_layout crops to
CropOf(p) == p.filters[Len(p.filters)]

\* C26: in the layouts '1+2' and '2+1', for every output width W and
\* height H, the large region is 2/3 of W wide and H high, the column
\* takes the rest of the width (the two widths sum to W), the column's two
\* cells are equally high and their vertical stack is H high, and the
\* regions are joined by one vstack followed by one hstack.
C26_OneLargePlusTwoRegions ==
    (Composed /\ layout_code \in {"1+2", "2+1"}) =>
        LET parts == final[1].cmd.filter_parts
            v == Stages(parts, "vstack")
            h == Stages(parts, "hstack")
            cells == Producers(parts, Range(v[1].ins))
            large == Producers(parts, Range(h[1].ins) \ Range(v[1].outs))
        IN  /\ Len(v) = 1 /\ Len(h) = 1
            /\ Stages(parts, "overlay") = <<>>
            /\ v[1].outs[1] \in Range(h[1].ins)
            /\ h[1].outs = << <<"o", "u", "t", "v">> >>
            /\ Len(cells) = 2 /\ Len(large) = 1
            /\ 3 * CropOf(large[1]).w <= 2 * width
            /\ 3 * CropOf(large[1]).w > 2 * width - 3
            /\ CropOf(large[1]).h = height
            /\ CropOf(cells[1]).w = CropOf(cells[2]).w
            /\ CropOf(large[1]).w + CropOf(cells[1]).w = width
            /\ CropOf(cells[1]).h = CropOf(cells[2]).h
            /\ CropOf(cells[1]).h + CropOf(cells[2]).h = height

\* ================================================================
\* the two copies of the normalizer (SpecFit)
\* ================================================================
\* the crop expressions built for the anchor at hand, by either copy
CropsBuilt ==
    (IF scale_filter # None /\ crop_mode = "crop"
     THEN {scale_filter[1][2]} ELSE {})
    \cup (IF scale_base # None /\ crop_mode = "crop"
          THEN {scale_base[1][2]} ELSE {})

\* the x and y the claim gives for an anchor
ClaimedOrigin(pos) ==
    IF pos \in {"top", "left", "top-left"} THEN <<Zero, Zero>>
    ELSE IF pos \in {"right", "top-right"} THEN <<IwMinus(width), Zero>>
    ELSE IF pos \in {"bottom", "bottom-left"} THEN <<Zero, IhMinus(height)>>
    ELSE IF pos = "bottom-right" THEN <<IwMinus(width), IhMinus(height)>>
    ELSE <<Omitted, Omitted>>

ButLast(chain) == SubSeq(chain, 1, Len(chain) - 1)

\* C29: for every fit mode (an unknown one included), anchor and size,
\* the scale/crop/pad expression built inside build_tile_with_transitions
\* is the one get_scale_filter returns, and both chains set the frame
\* rate to 30.
C29_InlineNormalizerAgrees ==
    /\ (scale_filter # None /\ scale_base # None) =>
          /\ ButLast(scale_filter[1]) = scale_base[1]
          /\ scale_filter[1][Len(scale_filter[1])] = [f |-> "fps", fps |-> 30]
    /\ scale_base # None =>
          LET chain == TileNormalizer(width, height, crop_mode, crop_position)
          IN  /\ SubSeq(chain, 1, Len(scale_base[1])) = scale_base[1]
              /\ chain[Len(chain)] = [f |-> "fps", fps |-> 30]
              /\ \A k \in 1..(Len(chain) - 1) : chain[k].f # "fps"
    /\ scale_filter # None =>
          \A k \in 1..(Len(scale_filter[1]) - 1) : scale_filter[1][k].f # "fps"

C29_Witness ==
    /\ scale_filter # None
    /\ scale_base # None
    /\ crop_mode \notin CropModes
    /\ crop_position = "bottom-right"
    /\ scale_base[1] = <<Scale(width, height, "increase"),
                         Crop(width, height, Omitted, Omitted)>>
    /\ ButLast(scale_filter[1]) = scale_base[1]

\* ================================================================
\* the random mode against the sequential one (Spec)
\* ================================================================
\* C30: in random mode the tile sizes are those of the sequential mode on
\* the same input (tile i has floor(N/T) clips plus one iff i < N mod T),
\* the tiles joined in order are a reordering of the input (the shuffled
\* copy cut into consecutive blocks), and the input list is left as it was.
C30_RandomIsShuffledSequential ==
    /\ video_files = ClipList(NumClips)
    /\ (Distributed /\ mode = "random") =>
          /\ Len(tiles) = num_tiles
          /\ \A t \in 1..num_tiles :
                Len(tiles[t]) = Len(Chunks(video_files, num_tiles)[t])
          /\ BlockSizes(tiles)
          /\ IsPermutation(Flatten(tiles), video_files)

C30_Witness ==
    /\ Distributed
    /\ mode = "random"
    /\ num_tiles = MaxTiles
    /\ NumClips > num_tiles
    /\ NumClips % num_tiles # 0
    /\ Len(tiles[1]) = Len(tiles[num_tiles]) + 1
    /\ Flatten(tiles)[1] = video_files[NumClips]
    /\ video_files = ClipList(NumClips)

====
